---- MODULE Spec2Model ----
(***************************************************************************)
(* Four-lepton candidate search of Exercise.ipynb: find_4lep, the numba    *)
(* routine that enumerates charge-balanced pairings per event, and the     *)
(* reconstruction block of RunSamples that labels the pairs z1/z2 and      *)
(* keeps, per event, the candidate whose z1 mass is closest to the Z mass. *)
(*                                                                         *)
(* Lepton indices are 0-based as in the source; TLA+ sequences are 1-based,*)
(* so lep_charge[i] is At(charge, i).                                      *)
(*                                                                         *)
(* Spec runs find_4lep on any array of events: one step per iteration of   *)
(* the loop over events (begin_list, the four nested loops, end_list).     *)
(* ReconSpec runs lines 455-471 of RunSamples, one step per statement, on  *)
(* the candidate lists find_4lep returns for any batch that passed the     *)
(* filter and the skip of lines 449-453.  The four-momenta enter through   *)
(* the invariant mass of each pair of muons, an input drawn per event and  *)
(* per pair.                                                               *)
(* LoopSpec runs find_4lep one step per loop head, on arrays of events of  *)
(* any charges, 0 included, and keeps the lists the builder holds; numba   *)
(* runs the loops to completion, which is its                              *)
(* fairness.  RunSpec runs lines 449-455 of RunSamples: the muon_counts    *)
(* filter, the skip of an empty batch and the call of find_4lep on a new   *)
(* builder.  LeptonSpec runs find_4lep on one event given as lepton        *)
(* records, of which the zip of line 384 takes the charges.                *)
(* FillSpec runs the whole of RunSamples, lines 409-482, over the batches   *)
(* of a sample of at most MaxEvents events: the filter, find_4lep, the     *)
(* reconstruction, the cuts and the four histogram fills.                  *)
(***************************************************************************)
EXTENDS Integers, Sequences, FiniteSets, TLC

\* ------------------------------------------------------------------ bounds
\* largest number of leptons in one event
MaxLep == 4
\* largest number of events in one batch
MaxEvents == 2

\* lepton charges of the data model
Charges == {-1, 1}

\* line 419: RunSamples keeps the events with exactly this many muons
NMuons == 4

\* line 470: the nominal Z mass 91.1876 GeV, in units of 0.0001 GeV
NominalZ == 911876

\* the pair masses an event can have, in the same units: 30 GeV and 91 GeV
Masses == {300000, 910000}

\* line 409: the default z1range and z2range, (0, 10000) GeV, in the same
\* units
DefaultRange == <<0, 100000000>>

\* the mass windows a caller passes: the default and 40..120 GeV
Windows == {DefaultRange, <<400000, 1200000>>}

VARIABLES
    pc,        \* control position
    events,    \* events_leptons.charge: the events the zip has yielded so far;
               \* in the step-by-step run of find_4lep, the whole input array
    out,       \* builder: the lists closed by end_list, in order
    pairMass,  \* per event, the invariant mass of each pair of muons used
    fourmuon,  \* RunSamples' fourmuon array
    bestz1,    \* RunSamples' bestz1 array
    nevents,   \* len(events_leptons): the number of events of the input array
    nlists,    \* builder: the number of lists closed by end_list
    lep_charge,\* find_4lep's lep_charge: the charges of the current event
    i0, i1, i2, i3,  \* find_4lep's loop variables
    cur,       \* builder: the list opened by begin_list, not yet closed
    leptons,   \* events_leptons: the lepton records of the event, where the
               \* fields other than the charge are followed
    entries,   \* the events of the samples uproot.iterate has not yet yielded
    args,      \* RunSamples' arguments apply_Z_mass, z1range, z2range
    hists,     \* per histogram, the number of values it has been filled with
    npassed    \* the number of events muon_counts has kept, over all batches

vars == <<pc, events, out, pairMass, fourmuon, bestz1,
          nevents, nlists, lep_charge, i0, i1, i2, i3, cur, leptons,
          entries, args, hists, npassed>>
runvars == <<pairMass, fourmuon, bestz1>>
loopvars == <<nevents, nlists, lep_charge, i0, i1, i2, i3, cur>>
fillvars == <<entries, args, hists, npassed>>

\* ----------------------------------------------------------------- helpers
At(s, i) == s[i + 1]

Range(s) == {s[n] : n \in 1..Len(s)}

\* all sequences over S of length 0..n
SeqUpTo(S, n) == UNION {[1..m -> S] : m \in 0..n}

\* the events a batch can hold: charge lists of 0..MaxLep leptons
EventSet == SeqUpTo(Charges, MaxLep)

\* ------------------------------------------------------------ find_4lep
\* variant of Balanced: the test inverted (`== 0` in place of `!= 0`)
BalancedInverted(charge, i, j) == At(charge, i) + At(charge, j) # 0

\* lep_charge[i] + lep_charge[j] != 0 is the `continue` of lines 389 and 395
Balanced(charge, i, j) == At(charge, i) + At(charge, j) = 0

\* variant of Unique4: the threshold off by one (`< 3`)
Unique4Loose(a, b, c, d) == ~(Cardinality({a, b, c, d}) < 3)

\* len({i0, i1, i2, i3}) < 4 is the `continue` of line 393
Unique4(a, b, c, d) == ~(Cardinality({a, b, c, d}) < 4)

\* variant of RangeStart: range(nlep) in place of range(i + 1, nlep)
RangeStartZero(i) == 0

\* first value of range(i0 + 1, nlep) and of range(i2 + 1, nlep)
RangeStart(i) == i + 1

\* variant of EndTuple: the tuple is appended twice
EndTupleTwice(list, t) == Append(Append(list, t), t)

\* variant of EndTuple: the tuple is put in front of the open list
EndTupleInFront(list, t) == <<t>> \o list

\* variant of EndTuple: a tuple whose second pair starts before its first
\* pair is left out
EndTuplePruned(list, t) == IF t[1] < t[3] THEN Append(list, t) ELSE list

\* begin_tuple(4) .. end_tuple(): one 4-tuple appended to the open list
EndTuple(list, t) == Append(list, t)

\* lines 392-402: for i3 in range(i2 + 1, nlep), from the value d on: the
\* tuples these iterations append to the open list, in order
RECURSIVE ForI3(_, _, _, _, _)
ForI3(charge, a, b, c, d) ==
    IF d < Len(charge)
    THEN (IF ~Unique4(a, b, c, d) THEN << >>
          ELSE IF ~Balanced(charge, c, d) THEN << >>
          ELSE EndTuple(<< >>, <<a, b, c, d>>))
         \o ForI3(charge, a, b, c, d + 1)
    ELSE << >>

\* line 391: for i2 in range(nlep), from the value c on
RECURSIVE ForI2(_, _, _, _)
ForI2(charge, a, b, c) ==
    IF c < Len(charge)
    THEN ForI3(charge, a, b, c, RangeStart(c)) \o ForI2(charge, a, b, c + 1)
    ELSE << >>

\* lines 388-390: for i1 in range(i0 + 1, nlep), from the value b on
RECURSIVE ForI1(_, _, _)
ForI1(charge, a, b) ==
    IF b < Len(charge)
    THEN (IF ~Balanced(charge, a, b) THEN << >>
          ELSE ForI2(charge, a, b, 0))
         \o ForI1(charge, a, b + 1)
    ELSE << >>

\* line 387: for i0 in range(nlep), from the value a on
RECURSIVE ForI0(_, _)
ForI0(charge, a) ==
    IF a < Len(charge)
    THEN ForI1(charge, a, RangeStart(a)) \o ForI0(charge, a + 1)
    ELSE << >>

\* lines 385-403: the body of the loop over events, from begin_list to
\* end_list: the list of candidates of one event
Find4LepEvent(charge) == ForI0(charge, 0)

\* Find4LepEvent tabulated over the events of the model (the comparison makes
\* TLC build the table once instead of at every use)
Find4LepTable ==
    LET f == [e \in EventSet |-> Find4LepEvent(e)] IN IF f = f THEN f ELSE f

\* variant of EndList: the list is not closed, the next event's tuples are
\* added to it
EndListMerged(lists, list) ==
    IF lists = << >> THEN <<list>>
    ELSE [lists EXCEPT ![Len(lists)] = @ \o list]

\* line 403, builder.end_list(): the open list is closed and becomes the last
\* list of the builder
EndList(lists, list) == Append(lists, list)

\* lines 384-405: find_4lep on a whole array of events: the builder it is
\* given, with one list appended per event
RECURSIVE find_4lep(_, _)
find_4lep(evs, builder) ==
    IF evs = << >> THEN builder
    ELSE EndList(find_4lep(SubSeq(evs, 1, Len(evs) - 1), builder),
                 Find4LepTable[evs[Len(evs)]])

\* line 455, ak.ArrayBuilder(): every call is given a new, empty builder,
\* whatever builder b an earlier call has filled
FreshBuilder(b) == << >>

\* line 409: RunSamples' defaults for apply_Z_mass, z1range and z2range
DefaultArgs ==
    [apply_Z_mass |-> FALSE, z1range |-> DefaultRange, z2range |-> DefaultRange]

\* lines 411-416: the histograms are created empty
NewHists == [m4l |-> 0, mz1 |-> 0, mz2 |-> 0, iso |-> 0]

\* the variables of the step-by-step run of find_4lep, of the run on lepton
\* records and of the loop over batches, where they are not in use
Idle ==
    /\ nevents = 0
    /\ nlists = 0
    /\ lep_charge = << >>
    /\ i0 = 0 /\ i1 = 0 /\ i2 = 0 /\ i3 = 0
    /\ cur = << >>
    /\ leptons = << >>
    /\ entries = 0
    /\ args = DefaultArgs
    /\ hists = NewHists
    /\ npassed = 0

\* lines 384-403: the zip yields the next event; begin_list, the loops and
\* end_list append its list of candidates to the builder
ForEvent ==
    /\ pc = "for_event"
    /\ Len(events) < MaxEvents
    /\ \E e \in EventSet :
          /\ events' = Append(events, e)
          /\ out' = EndList(out, Find4LepTable[e])
    /\ UNCHANGED <<pc, runvars, loopvars, leptons, fillvars>>

\* line 405: the zip is exhausted, return builder
Return ==
    /\ pc = "for_event"
    /\ pc' = "returned"
    /\ UNCHANGED <<events, out, runvars, loopvars, leptons, fillvars>>

Init ==
    /\ pc = "for_event"
    /\ events = << >>
    /\ out = << >>
    /\ pairMass = << >>
    /\ fourmuon = << >>
    /\ bestz1 = << >>
    /\ Idle

Next == ForEvent \/ Return

Spec == Init /\ [][Next]_vars

\* ------------------------------------------ find_4lep on lepton records
\* lines 421-432: a muon is a record of its charge and of other fields, of
\* which eta, a signed number, is followed here
Etas == {-1, 1}

Leptons == [charge : Charges, eta : Etas]

\* an event of events_leptons: the records of 0..MaxLep leptons
LeptonEvents == SeqUpTo(Leptons, MaxLep)

\* variant of ChargeField: another field of the records is taken
EtaField(event) == [n \in 1..Len(event) |-> event[n].eta]

\* line 384, events_leptons.charge for one event: the charges of its leptons
ChargeField(event) == [n \in 1..Len(event) |-> event[n].charge]

\* find_4lep is called on an array of one event
LeptonInit ==
    /\ pc = "lepton_zip"
    /\ leptons \in LeptonEvents
    /\ events = << >>
    /\ out = << >>
    /\ pairMass = << >>
    /\ fourmuon = << >>
    /\ bestz1 = << >>
    /\ nevents = 1
    /\ nlists = 0
    /\ lep_charge = << >>
    /\ i0 = 0 /\ i1 = 0 /\ i2 = 0 /\ i3 = 0
    /\ cur = << >>
    /\ entries = 0
    /\ args = DefaultArgs
    /\ hists = NewHists
    /\ npassed = 0

\* line 384: the zip yields the event's records with their charges
LeptonZip ==
    /\ pc = "lepton_zip"
    /\ lep_charge' = ChargeField(leptons)
    /\ pc' = "lepton_loops"
    /\ UNCHANGED <<events, out, runvars, nevents, nlists, i0, i1, i2, i3, cur,
                   leptons, fillvars>>

\* lines 385-403: begin_list, the loops over range(len(leptons)), which read
\* lep_charge, and end_list
LeptonLoops ==
    /\ pc = "lepton_loops"
    /\ out' = EndList(out, Find4LepEvent(lep_charge))
    /\ nlists' = nlists + 1
    /\ pc' = "lepton_end"
    /\ UNCHANGED <<events, runvars, nevents, lep_charge, i0, i1, i2, i3, cur,
                   leptons, fillvars>>

\* line 405: the zip is exhausted, return builder
LeptonReturn ==
    /\ pc = "lepton_end"
    /\ pc' = "returned"
    /\ UNCHANGED <<events, out, runvars, loopvars, leptons, fillvars>>

LeptonNext == LeptonZip \/ LeptonLoops \/ LeptonReturn

LeptonSpec == LeptonInit /\ [][LeptonNext]_vars

\* ------------------------------- RunSamples, lines 445-453: the batches
\* variant of PassesCounts: the two charge conditions left out
PassesCountsAnyCharge(charge) == Len(charge) = NMuons

\* line 449, muon_counts for one event: exactly 4 muons, of which two of
\* charge +1 and two of charge -1
PassesCounts(charge) ==
    /\ Len(charge) = NMuons
    /\ Cardinality({n \in 1..Len(charge) : charge[n] = 1}) = 2
    /\ Cardinality({n \in 1..Len(charge) : charge[n] = -1}) = 2

\* the batches of muons left by the muon selection of line 445: events of at
\* most NMuons muons
MuonBatches == SeqUpTo(SeqUpTo(Charges, NMuons), MaxEvents)

\* lines 449-453: the batches that reach line 455: muon_counts has kept the
\* events of two muons of each charge, and a batch left empty was skipped
PassedBatches ==
    SeqUpTo({e \in [1..NMuons -> Charges] : PassesCounts(e)}, MaxEvents)
        \ {<< >>}

\* ------------------------------------- find_4lep, one step per loop head
\* the charges an event can hold when nothing is assumed about them: 0 is a
\* charge that balances itself
WideCharges == {-1, 0, 1}

\* the arrays of at most k events that hold at most room leptons in all
RECURSIVE ArraysWithin(_, _)
ArraysWithin(k, room) ==
    IF k = 0 THEN {<< >>}
    ELSE {<< >>} \cup
         UNION {{<<e>> \o rest : rest \in ArraysWithin(k - 1, room - Len(e))} :
                   e \in SeqUpTo(WideCharges, room)}

\* the input arrays of the step-by-step run: at most MaxEvents events, at
\* most MaxLep leptons in the whole array, and the batches RunSamples calls
\* find_4lep on at line 455
LoopArrays == ArraysWithin(MaxEvents, MaxLep) \cup PassedBatches

\* variant of RangeNext: the loop variable is not advanced
RangeNextStuck(i) == i

\* the value a range yields after i
RangeNext(i) == i + 1

\* find_4lep is called on any such array, with a new builder
LoopInit ==
    /\ pc = "zip"
    /\ events \in LoopArrays
    /\ out = << >>
    /\ pairMass = << >>
    /\ fourmuon = << >>
    /\ bestz1 = << >>
    /\ nevents = Len(events)
    /\ nlists = 0
    /\ lep_charge = << >>
    /\ i0 = 0 /\ i1 = 0 /\ i2 = 0 /\ i3 = 0
    /\ cur = << >>
    /\ leptons = << >>
    /\ entries = 0
    /\ args = DefaultArgs
    /\ hists = NewHists
    /\ npassed = 0

\* lines 384-386: the zip yields the next event, begin_list opens its list
ZipYield ==
    /\ pc = "zip"
    /\ nlists < nevents
    /\ lep_charge' = events[nlists + 1]
    /\ cur' = << >>
    /\ pc' = "for_i0"
    /\ UNCHANGED <<events, out, runvars, nevents, nlists, i0, i1, i2, i3, leptons,
                   fillvars>>

\* line 387: for i0 in range(nlep); when the range is exhausted the loops of
\* the event are over.  A loop variable is set back to 0 when its loop ends:
\* it is assigned again before it is next read.
LoopI0 ==
    /\ pc = "for_i0"
    /\ IF i0 < Len(lep_charge)
       THEN /\ i1' = RangeStart(i0)
            /\ pc' = "for_i1"
            /\ UNCHANGED i0
       ELSE /\ i0' = 0
            /\ pc' = "end_list"
            /\ UNCHANGED i1
    /\ UNCHANGED <<events, out, runvars, nevents, nlists, lep_charge,
                   i2, i3, cur, leptons, fillvars>>

\* lines 388-390: for i1 in range(i0 + 1, nlep), with the `continue` of an
\* unbalanced first pair
LoopI1 ==
    /\ pc = "for_i1"
    /\ IF i1 < Len(lep_charge)
       THEN IF ~Balanced(lep_charge, i0, i1)
            THEN /\ i1' = RangeNext(i1)
                 /\ UNCHANGED <<pc, i0, i2>>
            ELSE /\ i2' = 0
                 /\ pc' = "for_i2"
                 /\ UNCHANGED <<i0, i1>>
       ELSE /\ i1' = 0
            /\ i0' = RangeNext(i0)
            /\ pc' = "for_i0"
            /\ UNCHANGED i2
    /\ UNCHANGED <<events, out, runvars, nevents, nlists, lep_charge,
                   i3, cur, leptons, fillvars>>

\* line 391: for i2 in range(nlep)
LoopI2 ==
    /\ pc = "for_i2"
    /\ IF i2 < Len(lep_charge)
       THEN /\ i3' = RangeStart(i2)
            /\ pc' = "for_i3"
            /\ UNCHANGED <<i1, i2>>
       ELSE /\ i2' = 0
            /\ i1' = RangeNext(i1)
            /\ pc' = "for_i1"
            /\ UNCHANGED i3
    /\ UNCHANGED <<events, out, runvars, nevents, nlists, lep_charge,
                   i0, cur, leptons, fillvars>>

\* lines 392-402: for i3 in range(i2 + 1, nlep), the two `continue`s and the
\* tuple appended to the open list
LoopI3 ==
    /\ pc = "for_i3"
    /\ IF i3 < Len(lep_charge)
       THEN /\ cur' = IF ~Unique4(i0, i1, i2, i3) THEN cur
                      ELSE IF ~Balanced(lep_charge, i2, i3) THEN cur
                      ELSE EndTuple(cur, <<i0, i1, i2, i3>>)
            /\ i3' = RangeNext(i3)
            /\ UNCHANGED <<pc, i2>>
       ELSE /\ i3' = 0
            /\ i2' = RangeNext(i2)
            /\ pc' = "for_i2"
            /\ UNCHANGED cur
    /\ UNCHANGED <<events, out, runvars, nevents, nlists, lep_charge,
                   i0, i1, leptons, fillvars>>

\* line 403: end_list closes the list of the event, which becomes the last
\* list of the builder; the zip is asked for the next event
LoopEndList ==
    /\ pc = "end_list"
    /\ out' = EndList(out, cur)
    /\ nlists' = nlists + 1
    /\ lep_charge' = << >>
    /\ cur' = << >>
    /\ pc' = "zip"
    /\ UNCHANGED <<events, runvars, nevents, i0, i1, i2, i3, leptons, fillvars>>

\* line 405: the zip is exhausted, return builder
LoopReturn ==
    /\ pc = "zip"
    /\ nlists = nevents
    /\ pc' = "returned"
    /\ UNCHANGED <<events, out, runvars, loopvars, leptons, fillvars>>

LoopNext ==
    \/ ZipYield \/ LoopI0 \/ LoopI1 \/ LoopI2 \/ LoopI3
    \/ LoopEndList \/ LoopReturn

\* numba runs the compiled loops to completion: a step that can be taken is
\* taken
LoopSpec == LoopInit /\ [][LoopNext]_vars /\ WF_vars(LoopNext)

\* ------------------------------------------- RunSamples, lines 455-471
\* muons[k][i]: a muon is identified by its event and its index in the event
Muon(k, i) == [ev |-> k, idx |-> i]

\* the pairs of muons whose four-momenta are added at lines 461 and 466
UsedPairs(list) == UNION {{{t[1], t[2]}, {t[3], t[4]}} : t \in Range(list)}

\* the mass of fourmuon[a] + fourmuon[b] is an input: one value per pair of
\* muons of each event, the same whichever candidate uses the pair
RECURSIVE MassAssignments(_)
MassAssignments(lists) ==
    IF lists = << >> THEN {<< >>}
    ELSE {<<f>> \o rest : f \in [UsedPairs(Head(lists)) -> Masses],
                          rest \in MassAssignments(Tail(lists))}

\* variant of ZipCandidate: z1 from indices "2","3" and z2 from "0","1"
ZipCandidateSwapped(k, t, mass) ==
    [z1 |-> [lep1 |-> Muon(k, t[3]), lep2 |-> Muon(k, t[4]),
             mass |-> mass[{t[3], t[4]}]],
     z2 |-> [lep1 |-> Muon(k, t[1]), lep2 |-> Muon(k, t[2]),
             mass |-> mass[{t[1], t[2]}]]]

\* lines 456-468: the record of one candidate, z1 from indices "0","1" and
\* z2 from indices "2","3" of the tuple
ZipCandidate(k, t, mass) ==
    [z1 |-> [lep1 |-> Muon(k, t[1]), lep2 |-> Muon(k, t[2]),
             mass |-> mass[{t[1], t[2]}]],
     z2 |-> [lep1 |-> Muon(k, t[3]), lep2 |-> Muon(k, t[4]),
             mass |-> mass[{t[3], t[4]}]]]

Abs(x) == IF x < 0 THEN -x ELSE x

\* variant of Dist: the abs() left out
DistSigned(m) == m - NominalZ

\* line 470: abs(fourmuon.z1.p4.mass - 91.1876)
Dist(m) == Abs(m - NominalZ)

\* variant of ArgMin: the last of the smallest values in place of the first
ArgMinLast(d) ==
    IF d = << >> THEN [none |-> TRUE, val |-> 0]
    ELSE [none |-> FALSE,
          val |-> (CHOOSE n \in 1..Len(d) :
                      /\ \A m \in 1..Len(d) : d[n] <= d[m]
                      /\ \A m \in (n + 1)..Len(d) : d[m] > d[n]) - 1]

\* variant of ArgMin: the index of the largest value
ArgMax(d) ==
    IF d = << >> THEN [none |-> TRUE, val |-> 0]
    ELSE [none |-> FALSE,
          val |-> (CHOOSE n \in 1..Len(d) :
                      /\ \A m \in 1..Len(d) : d[n] >= d[m]
                      /\ \A m \in 1..(n - 1) : d[m] < d[n]) - 1]

\* ak.argmin(..., axis=1) on one list: None for an empty list, otherwise the
\* 0-based position of the first smallest value
ArgMin(d) ==
    IF d = << >> THEN [none |-> TRUE, val |-> 0]
    ELSE [none |-> FALSE,
          val |-> (CHOOSE n \in 1..Len(d) :
                      /\ \A m \in 1..Len(d) : d[n] <= d[m]
                      /\ \A m \in 1..(n - 1) : d[m] > d[n]) - 1]

\* ak.singletons on one entry: None becomes [], a value x becomes [x]
Singletons(o) == IF o.none THEN << >> ELSE <<o.val>>

\* fourmuon[bestz1] on one event: the candidates at the given positions
TakeAt(list, idxs) == [j \in 1..Len(idxs) |-> list[idxs[j] + 1]]

\* ak.flatten: the lists of all events concatenated, in order
RECURSIVE Flatten(_)
Flatten(ll) ==
    IF ll = << >> THEN << >> ELSE Head(ll) \o Flatten(Tail(ll))

\* line 455, find_4lep has returned the candidate lists of a batch that
\* passed lines 449-453; the reconstruction block reads the candidate lists,
\* not the charges they were found from
ReconInit ==
    /\ pc = "returned"
    /\ events = << >>
    /\ out \in {find_4lep(evs, FreshBuilder(<< >>)) : evs \in PassedBatches}
    /\ pairMass = << >>
    /\ fourmuon = << >>
    /\ bestz1 = << >>
    /\ Idle

\* lines 455-468: the snapshot of the builder, indexed into muons and zipped
\* into z1/z2 records; the snapshot has the fields "0".."3" that line 456
\* reads only if some list holds a tuple
ZipZ ==
    /\ pc = "returned"
    /\ \E k \in 1..Len(out) : out[k] # << >>
    /\ \E pm \in MassAssignments(out) : pairMass' = pm
    /\ fourmuon' = [k \in 1..Len(out) |->
                       [n \in 1..Len(out[k]) |->
                           ZipCandidate(k, out[k][n], pairMass'[k])]]
    /\ pc' = "zipped"
    /\ UNCHANGED <<events, out, bestz1, loopvars, leptons, fillvars>>

\* line 470: bestz1 = ak.singletons(ak.argmin(abs(z1 mass - 91.1876), axis=1))
BestZ1 ==
    /\ pc = "zipped"
    /\ bestz1' = [k \in 1..Len(fourmuon) |->
                     Singletons(ArgMin([n \in 1..Len(fourmuon[k]) |->
                                           Dist(fourmuon[k][n].z1.mass)]))]
    /\ pc' = "argmin"
    /\ UNCHANGED <<events, out, pairMass, fourmuon, loopvars, leptons, fillvars>>

\* line 471: fourmuon = ak.flatten(fourmuon[bestz1])
FlattenBest ==
    /\ pc = "argmin"
    /\ fourmuon' = Flatten([k \in 1..Len(fourmuon) |->
                               TakeAt(fourmuon[k], bestz1[k])])
    /\ pc' = "selected"
    /\ UNCHANGED <<events, out, pairMass, bestz1, loopvars, leptons, fillvars>>

\* the reconstruction block of RunSamples, lines 455-471, on any such batch
ReconNext == ZipZ \/ BestZ1 \/ FlattenBest

ReconSpec == ReconInit /\ [][ReconNext]_vars

\* ------------------------------------------- RunSamples, lines 449-455
\* line 445 has been run: muons holds the selected muons of a batch
RunInit ==
    /\ pc = "muon_selection"
    /\ events \in MuonBatches
    /\ out = << >>
    /\ pairMass = << >>
    /\ fourmuon = << >>
    /\ bestz1 = << >>
    /\ Idle

\* lines 449-450: muons = muons[muon_counts]
MuonCounts ==
    /\ pc = "muon_selection"
    /\ events' = SelectSeq(events, PassesCounts)
    /\ pc' = "muon_counts"
    /\ UNCHANGED <<out, runvars, loopvars, leptons, fillvars>>

\* lines 452-453: a batch left without events is skipped
SkipBatch ==
    /\ pc = "muon_counts"
    /\ Len(events) = 0
    /\ pc' = "continue"
    /\ UNCHANGED <<events, out, runvars, loopvars, leptons, fillvars>>

\* line 455: find_4lep(muons, ak.ArrayBuilder())
CallFind4Lep ==
    /\ pc = "muon_counts"
    /\ ~(Len(events) = 0)
    /\ out' = find_4lep(events, FreshBuilder(out))
    /\ pc' = "returned"
    /\ UNCHANGED <<events, runvars, loopvars, leptons, fillvars>>

RunNext == MuonCounts \/ SkipBatch \/ CallFind4Lep

RunSpec == RunInit /\ [][RunNext]_vars

\* ------------------------------------------- RunSamples, lines 409-482
\* the arguments RunSamples is called with: the defaults, or the mass cuts
\* with the 40..120 GeV window on z1 or on z2
ArgSet ==
    {DefaultArgs} \cup
    {a \in [apply_Z_mass : {TRUE}, z1range : Windows, z2range : Windows] :
        ~(a.z1range = a.z2range)}

\* variant of TakeBest: every candidate of the event is kept
TakeAll(list, idxs) == list

\* fourmuon[bestz1] on one event, as at line 471
TakeBest(list, idxs) == TakeAt(list, idxs)

\* lines 456-471 on the lists find_4lep returned and the pair masses of the
\* batch: zip, argmin of the z1 distance, flatten
Reconstruct(lists, mass) ==
    LET zipped == [k \in 1..Len(lists) |->
                      [n \in 1..Len(lists[k]) |->
                          ZipCandidate(k, lists[k][n], mass[k])]]
        best == [k \in 1..Len(lists) |->
                    Singletons(ArgMin([n \in 1..Len(zipped[k]) |->
                                          Dist(zipped[k][n].z1.mass)]))]
    IN Flatten([k \in 1..Len(lists) |-> TakeBest(zipped[k], best[k])])

\* lines 472-475, fourmuon_sel for one selected candidate r; dr tells for z1
\* and for z2 whether the deltaR of the pair's two muons is above 0.02
PassesCuts(r, dr, a) ==
    IF a.apply_Z_mass
    THEN /\ r.z1.mass > a.z1range[1] /\ r.z1.mass < a.z1range[2]
         /\ r.z2.mass > a.z2range[1] /\ r.z2.mass < a.z2range[2]
         /\ dr.z1 /\ dr.z2
    ELSE dr.z1 /\ dr.z2

\* line 477, array[mask]: the entries of the array whose mask entry is true
RECURSIVE Masked(_, _)
Masked(array, mask) ==
    IF array = << >> THEN << >>
    ELSE (IF Head(mask) THEN <<Head(array)>> ELSE << >>)
         \o Masked(Tail(array), Tail(mask))

\* lines 409-417: RunSamples is called; the samples hold 0..MaxEvents events
FillInit ==
    /\ pc = "iterate"
    /\ events = << >>
    /\ out = << >>
    /\ pairMass = << >>
    /\ fourmuon = << >>
    /\ bestz1 = << >>
    /\ nevents = 0
    /\ nlists = 0
    /\ lep_charge = << >>
    /\ i0 = 0 /\ i1 = 0 /\ i2 = 0 /\ i3 = 0
    /\ cur = << >>
    /\ leptons = << >>
    /\ entries \in 0..MaxEvents
    /\ args \in ArgSet
    /\ hists = NewHists
    /\ npassed = 0

\* line 447: ak.flatten of a per-muon field has one value per muon of the
\* batch
RECURSIVE NumFlattened(_)
NumFlattened(batch) ==
    IF batch = << >> THEN 0
    ELSE Len(batch[Len(batch)]) + NumFlattened(SubSeq(batch, 1, Len(batch) - 1))

\* lines 418-450: uproot.iterate yields the next batch, of one or more of the
\* events left; an event is given by the charges of its muons that are left
\* after lines 419 and 445; the iso histogram is filled once per such muon,
\* whether or not the event is kept; muon_counts keeps the 2+2 events
NextBatch ==
    /\ pc = "iterate"
    /\ \E n \in 1..entries :
          /\ entries' = entries - n
          /\ \E batch \in [1..n -> SeqUpTo(Charges, NMuons)] :
                /\ hists' = [hists EXCEPT !.iso = @ + NumFlattened(batch)]
                /\ events' = SelectSeq(batch, PassesCounts)
    /\ npassed' = npassed + Len(events')
    /\ pc' = "muon_counts"
    /\ UNCHANGED <<out, runvars, loopvars, leptons, args>>

\* lines 452-453: a batch left without events is skipped
ContinueEmpty ==
    /\ pc = "muon_counts"
    /\ Len(events) = 0
    /\ pc' = "iterate"
    /\ UNCHANGED <<events, out, runvars, loopvars, leptons, fillvars>>

\* line 455: find_4lep(muons, ak.ArrayBuilder()).snapshot().  What follows
\* reads muons only through the indices of the candidates, so the charges
\* are dropped here.
FindCandidates ==
    /\ pc = "muon_counts"
    /\ ~(Len(events) = 0)
    /\ out' = find_4lep(events, FreshBuilder(out))
    /\ events' = << >>
    /\ pc' = "candidates"
    /\ UNCHANGED <<runvars, loopvars, leptons, fillvars>>

\* lines 456-471: the reconstruction; the pair masses of the batch are read
\* here.  Line 456 assigns fourmuon anew, the snapshot is not kept.
SelectBest ==
    /\ pc = "candidates"
    /\ \E mass \in MassAssignments(out) :
          fourmuon' = Reconstruct(out, mass)
    /\ out' = << >>
    /\ pc' = "cuts"
    /\ UNCHANGED <<events, pairMass, bestz1, loopvars, leptons, fillvars>>

\* lines 472-477: fourmuon = fourmuon[fourmuon_sel]; the deltaR of the two
\* pairs of each selected candidate is read here
ApplyCuts ==
    /\ pc = "cuts"
    /\ \E dr \in [1..Len(fourmuon) -> [z1 : BOOLEAN, z2 : BOOLEAN]] :
          fourmuon' = Masked(fourmuon,
                             [n \in 1..Len(fourmuon) |->
                                 PassesCuts(fourmuon[n], dr[n], args)])
    /\ pc' = "fill_m4l"
    /\ UNCHANGED <<events, out, pairMass, bestz1, loopvars, leptons, fillvars>>

\* line 479: hists["m4l"].fill(...), one value per entry of fourmuon
FillM4l ==
    /\ pc = "fill_m4l"
    /\ hists' = [hists EXCEPT !.m4l = @ + Len(fourmuon)]
    /\ pc' = "fill_mz1"
    /\ UNCHANGED <<events, out, runvars, loopvars, leptons, entries, args,
                   npassed>>

\* line 480: hists["mz1"].fill(...)
FillMz1 ==
    /\ pc = "fill_mz1"
    /\ hists' = [hists EXCEPT !.mz1 = @ + Len(fourmuon)]
    /\ pc' = "fill_mz2"
    /\ UNCHANGED <<events, out, runvars, loopvars, leptons, entries, args,
                   npassed>>

\* line 481: hists["mz2"].fill(...), the last statement of the loop body;
\* fourmuon is assigned anew before the next batch reads it
FillMz2 ==
    /\ pc = "fill_mz2"
    /\ hists' = [hists EXCEPT !.mz2 = @ + Len(fourmuon)]
    /\ fourmuon' = << >>
    /\ pc' = "iterate"
    /\ UNCHANGED <<events, out, pairMass, bestz1, loopvars, leptons, entries,
                   args, npassed>>

\* line 482: no event is left, return hists
ReturnHists ==
    /\ pc = "iterate"
    /\ entries = 0
    /\ pc' = "return"
    /\ UNCHANGED <<events, out, runvars, loopvars, leptons, fillvars>>

FillNext ==
    \/ NextBatch \/ ContinueEmpty \/ FindCandidates \/ SelectBest
    \/ ApplyCuts \/ FillM4l \/ FillMz1 \/ FillMz2 \/ ReturnHists

FillSpec == FillInit /\ [][FillNext]_vars

\* ======================================================= properties, Spec
Idx(charge) == 0..(Len(charge) - 1)

\* the candidates of the data model: two charge-zero pairs, i0 < i1, i2 < i3,
\* four distinct indices
ValidCandidates(charge) ==
    {t \in Idx(charge) \X Idx(charge) \X Idx(charge) \X Idx(charge) :
        /\ t[1] < t[2] /\ t[3] < t[4]
        /\ charge[t[1] + 1] + charge[t[2] + 1] = 0
        /\ charge[t[3] + 1] + charge[t[4] + 1] = 0
        /\ t[1] # t[3] /\ t[1] # t[4] /\ t[2] # t[3] /\ t[2] # t[4]}

ValidTable ==
    LET f == [e \in EventSet |-> ValidCandidates(e)] IN IF f = f THEN f ELSE f

\* the other order of the two pairs of a candidate
SwapPairs(t) == <<t[3], t[4], t[1], t[2]>>

\* C1: for every event, the set of tuples find_4lep emits is exactly the set
\* of (i0,i1,i2,i3) with i0 < i1, i2 < i3, both pairs of charge zero and four
\* distinct indices: nothing is missing, nothing else is emitted.
C1_ExactCandidateSet ==
    \A k \in 1..Len(out) : Range(out[k]) = ValidTable[events[k]]

C1_Witness ==
    /\ pc = "returned"
    /\ \E k \in 1..Len(out) :
          /\ Len(events[k]) = 4
          /\ Cardinality(Range(out[k])) = 4
    /\ \E k \in 1..Len(out) :
          /\ Len(events[k]) = 4
          /\ \E i, j \in 1..4 : events[k][i] + events[k][j] = 0
          /\ out[k] = << >>

\* C2: every emitted candidate has
\* charge[i0]+charge[i1] = 0, charge[i2]+charge[i3] = 0 and four distinct
\* indices, each a valid index of its event.
C2_CandidatesValid ==
    \A k \in 1..Len(out) : \A t \in Range(out[k]) :
        /\ \A n \in 1..4 : t[n] \in 0..(Len(events[k]) - 1)
        /\ events[k][t[1] + 1] + events[k][t[2] + 1] = 0
        /\ events[k][t[3] + 1] + events[k][t[4] + 1] = 0
        /\ Cardinality({t[1], t[2], t[3], t[4]}) = 4

C2_Witness ==
    /\ pc = "returned"
    /\ \E k \in 1..Len(out) :
          events[k] = <<-1, 1, 1, -1>> /\ <<1, 3, 0, 2>> \in Range(out[k])

\* C3: an event with fewer than 4 leptons gets an empty candidate list,
\* whatever the charges.
C3_FewLeptonsEmpty ==
    \A k \in 1..Len(out) : Len(events[k]) < 4 => out[k] = << >>

C3_Witness ==
    /\ pc = "returned"
    /\ \E k \in 1..Len(out) : events[k] = <<1, -1, 1>> /\ out[k] = << >>
    /\ \E k \in 1..Len(out) : events[k] = << >> /\ out[k] = << >>

\* two disjoint charge-balanced pairs exist in the event
HasTwoDisjointPairs(charge) ==
    \E a, b, c, d \in Idx(charge) :
        /\ Cardinality({a, b, c, d}) = 4
        /\ charge[a + 1] + charge[b + 1] = 0
        /\ charge[c + 1] + charge[d + 1] = 0

PairableTable ==
    LET f == [e \in EventSet |-> HasTwoDisjointPairs(e)] IN IF f = f THEN f ELSE f

\* C4: an event without two disjoint charge-balanced pairs (all leptons of
\* the same charge in particular) gets an empty candidate list.
C4_NoPairingEmpty ==
    \A k \in 1..Len(out) :
        ~PairableTable[events[k]] => out[k] = << >>

C4_Witness ==
    /\ pc = "returned"
    /\ \E k \in 1..Len(out) : events[k] = <<1, 1, 1, 1>> /\ out[k] = << >>
    /\ \E k \in 1..Len(out) : events[k] = <<1, -1, -1, -1>> /\ out[k] = << >>

\* C5 as stated: charges [+1,-1,+1,-1] give exactly the two candidates
\* (0,1,2,3) and (0,3,1,2).
C5_TwoCandidates ==
    \A k \in 1..Len(out) :
        events[k] = <<1, -1, 1, -1>> =>
            /\ Len(out[k]) = 2
            /\ Range(out[k]) = {<<0, 1, 2, 3>>, <<0, 3, 1, 2>>}

\* C5 amended: charges [+1,-1,+1,-1] give exactly four candidates,
\* (0,1,2,3), (0,3,1,2), (1,2,0,3) and (2,3,0,1): each of the two splittings
\* in both orders of its pairs.
C5_FourCandidates ==
    \A k \in 1..Len(out) :
        events[k] = <<1, -1, 1, -1>> =>
            /\ Len(out[k]) = 4
            /\ Range(out[k]) = {<<0, 1, 2, 3>>, <<0, 3, 1, 2>>,
                                <<1, 2, 0, 3>>, <<2, 3, 0, 1>>}

C5_Witness ==
    /\ pc = "returned"
    /\ events = << <<1, -1, 1, -1>> >>
    /\ Len(out) = 1 /\ Len(out[1]) = 4

\* C6 as stated: permutations of the pairs are omitted, the output of an
\* event never holds both (a,b,c,d) and (c,d,a,b).
C6_NoPairSwap ==
    \A k \in 1..Len(out) : \A t \in Range(out[k]) :
        SwapPairs(t) \notin Range(out[k])

\* the splitting a candidate stands for: its two pairs, unordered
Splitting(t) == {{t[1], t[2]}, {t[3], t[4]}}

\* C6 amended: find_4lep omits the permutations within a pair (every
\* candidate has i0 < i1 and i2 < i3), not those of the pairs: each splitting
\* of four indices into two disjoint charge-balanced pairs yields two
\* candidates, one per order of the pairs.
C6_TwoPerSplitting ==
    \A k \in 1..Len(out) :
        /\ \A n \in 1..Len(out[k]) :
              out[k][n][1] < out[k][n][2] /\ out[k][n][3] < out[k][n][4]
        /\ \A s \in {Splitting(t) : t \in ValidTable[events[k]]} :
              Cardinality({n \in 1..Len(out[k]) : Splitting(out[k][n]) = s}) = 2

C6_Witness ==
    /\ pc = "returned"
    /\ \E k \in 1..Len(out) :
          /\ events[k] = <<1, 1, -1, -1>>
          /\ <<0, 2, 1, 3>> \in Range(out[k])
          /\ <<1, 3, 0, 2>> \in Range(out[k])

\* C7: no two candidates emitted for the same event are the same tuple.
C7_NoDuplicates ==
    \A k \in 1..Len(out) : Cardinality(Range(out[k])) = Len(out[k])

C7_Witness ==
    /\ pc = "returned"
    /\ Len(out) = 2
    /\ Len(out[1]) = 4 /\ out[2] = out[1]

\* C18: the output is closed under swapping the two pairs: whenever
\* (a,b,c,d) is emitted for an event, (c,d,a,b) is emitted for that event
\* too, and the number of candidates of every event is even.
C18_ClosedUnderPairSwap ==
    \A k \in 1..Len(out) :
        /\ Len(out[k]) % 2 = 0
        /\ LET emitted == Range(out[k])
           IN \A t \in emitted : SwapPairs(t) \in emitted

C18_Witness ==
    /\ pc = "returned"
    /\ \E k \in 1..Len(out) :
          /\ Len(out[k]) = 4
          /\ \E n, m \in 1..4 : /\ out[k][n] = <<0, 3, 1, 2>>
                                /\ out[k][m] = <<1, 2, 0, 3>>

\* ================================================== properties, ReconSpec
\* distance of a mass from the nominal Z mass
ZDistance(m) == IF m >= NominalZ THEN m - NominalZ ELSE NominalZ - m

\* the event a selected assignment comes from and the candidate it is
EventOf(r) == r.z1.lep1.ev
CandidateOf(r) == <<r.z1.lep1.idx, r.z1.lep2.idx, r.z2.lep1.idx, r.z2.lep2.idx>>

\* the selected assignments of event k
SelectedOf(k) == {n \in 1..Len(fourmuon) : EventOf(fourmuon[n]) = k}

\* C8: in the assignment selected for an event, the pair labelled z1 has a
\* mass at least as close to 91.1876 as the pair labelled z2, the masses being
\* those of the two pairs of muons of the selected candidate.
C8_Z1CloserThanZ2 ==
    pc = "selected" =>
        \A n \in 1..Len(fourmuon) :
            LET r == fourmuon[n]
                k == EventOf(r)
                t == CandidateOf(r)
            IN /\ r.z1.mass = pairMass[k][{t[1], t[2]}]
               /\ r.z2.mass = pairMass[k][{t[3], t[4]}]
               /\ ZDistance(r.z1.mass) <= ZDistance(r.z2.mass)

C8_Witness ==
    /\ pc = "selected"
    /\ \E n \in 1..Len(fourmuon) :
          /\ CandidateOf(fourmuon[n]) = <<2, 3, 0, 1>>
          /\ fourmuon[n].z1.mass = 910000
          /\ fourmuon[n].z2.mass = 300000

\* C9: the candidate selected for an event is one of the event's candidates
\* whose z1 mass has the smallest distance from 91.1876 among all of them,
\* and an event with candidates keeps exactly one of them.
C9_SelectedIsClosest ==
    pc = "selected" =>
        /\ \A n \in 1..Len(fourmuon) :
              LET k == EventOf(fourmuon[n])
                  t == CandidateOf(fourmuon[n])
              IN /\ k \in 1..Len(out)
                 /\ t \in Range(out[k])
                 /\ \A u \in Range(out[k]) :
                       ZDistance(pairMass[k][{t[1], t[2]}])
                           <= ZDistance(pairMass[k][{u[1], u[2]}])
        /\ \A k \in 1..Len(out) :
              out[k] # << >> => Cardinality(SelectedOf(k)) = 1

C9_Witness ==
    /\ pc = "selected"
    /\ Len(out) = 2 /\ Len(out[1]) = 4 /\ Len(out[2]) = 4
    /\ Len(fourmuon) = 2
    /\ CandidateOf(fourmuon[1]) = out[1][3]
    /\ CandidateOf(fourmuon[2]) = out[2][2]
    /\ \E u \in Range(out[1]) :
          ZDistance(pairMass[1][{u[1], u[2]}]) > ZDistance(fourmuon[1].z1.mass)

\* C13 as stated: in every candidate RunSamples builds, before the selection,
\* z1 is the pair whose mass is closer to 91.1876 and z2 the other one.
C13_EveryCandidateZ1Closer ==
    pc = "zipped" =>
        \A k \in 1..Len(fourmuon) : \A n \in 1..Len(fourmuon[k]) :
            ZDistance(fourmuon[k][n].z1.mass)
                <= ZDistance(fourmuon[k][n].z2.mass)

\* C13, amended: in every candidate RunSamples builds, z1 is the first pair
\* (i0,i1) of find_4lep's tuple and z2 the second pair (i2,i3), whichever is
\* closer to 91.1876; the candidate with the same two pairs in the other
\* order is built for the same event.
C13_Z1IsFirstPair ==
    pc = "zipped" =>
        /\ Len(fourmuon) = Len(out)
        /\ \A k \in 1..Len(fourmuon) :
              /\ Len(fourmuon[k]) = Len(out[k])
              /\ \A n \in 1..Len(fourmuon[k]) :
                    LET r == fourmuon[k][n]
                        t == out[k][n]
                    IN /\ r.z1.lep1 = [ev |-> k, idx |-> t[1]]
                       /\ r.z1.lep2 = [ev |-> k, idx |-> t[2]]
                       /\ r.z1.mass = pairMass[k][{t[1], t[2]}]
                       /\ r.z2.lep1 = [ev |-> k, idx |-> t[3]]
                       /\ r.z2.lep2 = [ev |-> k, idx |-> t[4]]
                       /\ r.z2.mass = pairMass[k][{t[3], t[4]}]
                       /\ \E m \in 1..Len(fourmuon[k]) :
                             /\ fourmuon[k][m].z1 = r.z2
                             /\ fourmuon[k][m].z2 = r.z1

\* a candidate whose z1 is the pair farther from 91.1876
C13_Witness ==
    /\ pc = "zipped"
    /\ \E k \in 1..Len(fourmuon) : \E n \in 1..Len(fourmuon[k]) :
          /\ fourmuon[k][n].z1.mass = 300000
          /\ fourmuon[k][n].z2.mass = 910000

\* the spec's BosonPairAssignment of one candidate, as <<Z1 pair, Z2 pair>>:
\* the closer pair is Z1, the first pair (i0,i1) on a tie
SpecAssignment(t, mass) ==
    LET first == {t[1], t[2]}
        second == {t[3], t[4]}
    IN IF ZDistance(mass[first]) <= ZDistance(mass[second])
       THEN <<first, second>> ELSE <<second, first>>

\* the spec's selectBestAssignment: over the assignments of all candidates,
\* the one of minimum Z1 distance, the first enumerated on a tie; no
\* assignment (the empty sequence) for an empty list
selectBestAssignment(candidates, mass) ==
    IF candidates = << >> THEN << >>
    ELSE LET a == [n \in 1..Len(candidates) |->
                      SpecAssignment(candidates[n], mass)]
             d == [n \in 1..Len(candidates) |-> ZDistance(mass[a[n][1]])]
             best == CHOOSE n \in 1..Len(candidates) :
                        /\ \A m \in 1..Len(candidates) : d[n] <= d[m]
                        /\ \A m \in 1..(n - 1) : d[m] > d[n]
         IN <<a[best]>>

\* what RunSamples has selected for event k, in the same form
SelectedAssignment(k) ==
    [j \in 1..Len(bestz1[k]) |->
        LET r == fourmuon[CHOOSE n \in SelectedOf(k) : TRUE]
        IN <<{r.z1.lep1.idx, r.z1.lep2.idx}, {r.z2.lep1.idx, r.z2.lep2.idx}>>]

\* the pairs of event k at the smallest distance from 91.1876
ClosestPairs(k) ==
    {p \in DOMAIN pairMass[k] :
        \A q \in DOMAIN pairMass[k] :
            ZDistance(pairMass[k][p]) <= ZDistance(pairMass[k][q])}

\* C14 as stated: for every event and every assignment of pair masses, ties
\* included, the (z1 pair, z2 pair) RunSamples selects is the assignment
\* selectBestAssignment returns on the event's candidates.
C14_SelectionEqualsSpec ==
    pc = "selected" =>
        \A k \in 1..Len(out) :
            SelectedAssignment(k) = selectBestAssignment(out[k], pairMass[k])

\* C14, amended: for every event and every assignment of pair masses in
\* which a single pair of the event is at the smallest distance from
\* 91.1876, the (z1 pair, z2 pair) RunSamples selects is the assignment
\* selectBestAssignment returns on the event's candidates.
C14_EqualsSpecWhenOneClosestPair ==
    pc = "selected" =>
        \A k \in 1..Len(out) :
            Cardinality(ClosestPairs(k)) = 1 =>
                SelectedAssignment(k)
                    = selectBestAssignment(out[k], pairMass[k])

\* the single closest pair is the second pair of the first candidate, so
\* the spec relabels that candidate and RunSamples selects a later one
C14_Witness ==
    /\ pc = "selected"
    /\ \E k \in 1..Len(out) :
          /\ Len(out[k]) = 4
          /\ ClosestPairs(k) = {{out[k][1][3], out[k][1][4]}}
          /\ SelectedAssignment(k) = selectBestAssignment(out[k], pairMass[k])

\* lexicographic order of 4-tuples
LexLess(s, t) ==
    \E n \in 1..4 : /\ \A m \in 1..(n - 1) : s[m] = t[m]
                    /\ s[n] < t[n]

\* the positions in find_4lep's list of event k of the candidates whose z1
\* (first pair) is at the smallest distance from 91.1876
MinimalZ1(k) ==
    LET d(n) == ZDistance(pairMass[k][{out[k][n][1], out[k][n][2]}])
    IN {n \in 1..Len(out[k]) : \A m \in 1..Len(out[k]) : d(n) <= d(m)}

\* C15: when several candidates of an event are at the same, smallest z1
\* distance from 91.1876, the selected one is the one find_4lep enumerated
\* first, which is the lexicographically smallest tuple among them.
C15_FirstEnumeratedWinsTie ==
    pc = "selected" =>
        \A n \in 1..Len(fourmuon) :
            LET k == EventOf(fourmuon[n])
            IN \E j \in MinimalZ1(k) :
                  /\ out[k][j] = CandidateOf(fourmuon[n])
                  /\ \A m \in MinimalZ1(k) \ {j} :
                        /\ j < m
                        /\ LexLess(out[k][j], out[k][m])

\* a tie that the first candidate of the event is not part of
C15_Witness ==
    /\ pc = "selected"
    /\ \E n \in 1..Len(fourmuon) :
          LET k == EventOf(fourmuon[n])
          IN /\ Cardinality(MinimalZ1(k)) >= 2
             /\ ~(1 \in MinimalZ1(k))
             /\ CandidateOf(fourmuon[n]) = out[k][2]

\* =================================================== properties, LoopSpec
\* the charges read at lines 389 and 395 are at indices of the event
ReadsInRange ==
    /\ (pc = "for_i1" /\ i1 < Len(lep_charge)) =>
          ({i0, i1} \subseteq Idx(lep_charge))
    /\ (pc = "for_i3" /\ i3 < Len(lep_charge)) =>
          ({i2, i3} \subseteq Idx(lep_charge))

\* C11: find_4lep is total: on an array of any number of events, of any
\* number of leptons and of any charges (0 included), every run reaches the
\* return statement, every charge read is at an index of the event, the
\* returned builder holds one list per event, and the list of an event that
\* has no two disjoint charge-balanced pairs is empty, when end_list closes
\* it and in the returned builder.
C11_TotalAndTerminates ==
    /\ <>(pc = "returned")
    /\ [](ReadsInRange)
    /\ [](pc = "returned" =>
             /\ nlists = nevents
             /\ Len(out) = Len(events)
             /\ \A k \in 1..Len(events) :
                   ~HasTwoDisjointPairs(events[k]) => out[k] = << >>)
    /\ []((pc = "end_list" /\ ~HasTwoDisjointPairs(lep_charge)) =>
             cur = << >>)

\* an event of no leptons and an event of four of which one has charge 0
C11_Witness ==
    /\ pc = "returned"
    /\ Len(events) = 2
    /\ events[1] = << >>
    /\ Len(events[2]) = 4
    /\ \E n \in 1..4 : events[2][n] = 0
    /\ ~HasTwoDisjointPairs(events[2])
    /\ out = << << >>, << >> >>

\* C16: within an event the candidates are emitted in strictly increasing
\* lexicographic order of (i0,i1,i2,i3): at every step of the loops, every
\* tuple of the open list is greater than every tuple emitted before it, and
\* so is every tuple of every list the builder holds.
C16_EmittedInLexOrder ==
    /\ \A n \in 1..Len(cur) : \A m \in 1..(n - 1) : LexLess(cur[m], cur[n])
    /\ \A k \in 1..Len(out) :
          \A n \in 1..Len(out[k]) :
             \A m \in 1..(n - 1) : LexLess(out[k][m], out[k][n])

\* the four candidates of an event of two pairs, in the returned builder
C16_Witness ==
    /\ pc = "returned"
    /\ Len(events) >= 1
    /\ Len(events[Len(events)]) = 4
    /\ Len(out) = Len(events)
    /\ out[Len(out)] = <<<<0, 1, 2, 3>>, <<0, 3, 1, 2>>,
                         <<1, 2, 0, 3>>, <<2, 3, 0, 1>>>>

\* ValidCandidates tabulated over the events of the step-by-step run
ValidWideTable ==
    LET f == [e \in SeqUpTo(WideCharges, MaxLep) |-> ValidCandidates(e)]
    IN IF f = f THEN f ELSE f

\* the builder holds one closed list per event the loop over events has
\* finished, and no list is open between two events
OneListPerEvent ==
    /\ Len(out) = nlists
    /\ nlists <= Len(events)
    /\ pc \in {"zip", "returned"} => cur = << >>
    /\ pc = "returned" => Len(out) = Len(events)

\* the k-th list holds the valid candidates of the k-th event, all of them
\* and each once, in lexicographic order: it is fixed by the k-th event alone
ListOfItsEvent(k) ==
    /\ Range(out[k]) = ValidWideTable[events[k]]
    /\ Len(out[k]) = Cardinality(ValidWideTable[events[k]])
    /\ \A n \in 1..Len(out[k]) :
          \A m \in 1..(n - 1) : LexLess(out[k][m], out[k][n])

\* the tuples appended since begin_list are tuples of the current event
OpenListOfCurrentEvent ==
    pc \notin {"zip", "returned"} =>
        /\ lep_charge = events[nlists + 1]
        /\ Range(cur) \subseteq ValidWideTable[lep_charge]

\* a step leaves every closed list as it is and in its place
ClosedListsKept ==
    /\ Len(out') >= Len(out)
    /\ \A k \in 1..Len(out) : out'[k] = out[k]

\* C17: on an array of K events find_4lep appends exactly K lists; the tuples
\* of an event are appended between its begin_list and its end_list, into
\* the list that becomes the k-th, and a closed list is never touched again;
\* the k-th list is the ordered list of the valid candidates of the k-th
\* event, so it is the same whatever the other events of the array are and
\* however many there are.
C17_OneListPerEventAlone ==
    /\ [](OneListPerEvent)
    /\ [](\A k \in 1..Len(out) : ListOfItsEvent(k))
    /\ [](OpenListOfCurrentEvent)
    /\ [][ClosedListsKept]_vars

\* two events of four candidates each, with different lists
C17_Witness ==
    /\ pc = "returned"
    /\ events = << <<1, 1, -1, -1>>, <<1, -1, 1, -1>> >>
    /\ Len(out) = 2
    /\ Len(out[1]) = 4 /\ Len(out[2]) = 4
    /\ out[1] # out[2]

\* ================================================= properties, LeptonSpec
\* the events of the same number of leptons and the same charges as event
SameCharges(event) ==
    {other \in LeptonEvents :
        /\ Len(other) = Len(event)
        /\ \A n \in 1..Len(event) : other[n].charge = event[n].charge}

\* C20: the candidates of an event depend only on its number of leptons and
\* its charges: the list find_4lep returns for an event is the list it
\* returns for every event of the same charges, whatever their other fields.
C20_OnlyChargesRead ==
    pc = "returned" =>
        \A other \in SameCharges(leptons) :
            out = <<Find4LepEvent(ChargeField(other))>>

\* an event of four candidates whose leptons differ in eta; fifteen other
\* events have its charges
C20_Witness ==
    /\ pc = "returned"
    /\ Len(leptons) = 4
    /\ Len(out[1]) = 4
    /\ \E n, m \in 1..4 : leptons[n].eta # leptons[m].eta
    /\ Cardinality(SameCharges(leptons)) = 16

\* ==================================================== properties, RunSpec
\* C19: every event RunSamples passes to find_4lep has exactly 4 muons, two
\* of charge +1 and two of charge -1; for every such event find_4lep emits
\* exactly 4 candidates, so whatever the pair masses are the argmin of line
\* 470 is a position of the list and never absent.
C19_PassedEventsHaveFourCandidates ==
    pc = "returned" =>
        /\ Len(out) = Len(events)
        /\ \A k \in 1..Len(events) :
              /\ Len(events[k]) = 4
              /\ Cardinality({n \in 1..4 : events[k][n] = 1}) = 2
              /\ Cardinality({n \in 1..4 : events[k][n] = -1}) = 2
              /\ Len(out[k]) = 4
              /\ \A mass \in [UsedPairs(out[k]) -> Masses] :
                    LET best == ArgMin([n \in 1..Len(out[k]) |->
                                  Dist(ZipCandidate(k, out[k][n], mass).z1.mass)])
                    IN /\ ~best.none
                       /\ best.val \in 0..3

\* a batch of which two events are passed to find_4lep
C19_Witness ==
    /\ pc = "returned"
    /\ Len(events) = 2
    /\ events[1] = <<1, 1, -1, -1>>
    /\ events[2] = <<-1, 1, 1, -1>>
    /\ Len(out[1]) = 4 /\ Len(out[2]) = 4

\* =================================================== properties, FillSpec
\* the values still to be filled into histogram h from the current batch
Pending(h) ==
    IF \/ pc \in {"cuts", "fill_m4l"}
       \/ (pc = "fill_mz1" /\ h # "m4l")
       \/ (pc = "fill_mz2" /\ h = "mz2")
    THEN Len(fourmuon) ELSE 0

\* C21: whenever RunSamples is between two batches or has returned, the m4l,
\* mz1 and mz2 histograms have been filled the same number of times, and
\* that number is at most the number of events muon_counts has kept: every
\* event contributes at most one entry, the cuts only remove selected
\* candidates (none is put in the place of one that fails), and with
\* apply_Z_mass every entry filled lies inside both mass windows.
C21_FillsEqualAndBounded ==
    /\ [](pc \in {"iterate", "return"} =>
             (hists.m4l = hists.mz1 /\ hists.mz1 = hists.mz2))
    /\ [](\A h \in {"m4l", "mz1", "mz2"} : hists[h] + Pending(h) <= npassed)
    /\ [](\A m, n \in 1..Len(fourmuon) :
             fourmuon[m].z1.lep1.ev = fourmuon[n].z1.lep1.ev => m = n)
    /\ [](pc = "fill_m4l" /\ args.apply_Z_mass =>
             \A n \in 1..Len(fourmuon) :
                 /\ fourmuon[n].z1.mass > args.z1range[1]
                 /\ fourmuon[n].z1.mass < args.z1range[2]
                 /\ fourmuon[n].z2.mass > args.z2range[1]
                 /\ fourmuon[n].z2.mass < args.z2range[2])
    /\ [][pc = "cuts" =>
             {fourmuon'[n] : n \in 1..Len(fourmuon')}
                 \subseteq {fourmuon[n] : n \in 1..Len(fourmuon)}]_vars

\* two events passed the filter, in one batch or in two; the selected
\* candidate of one failed the cuts, so each histogram has one entry
C21_Witness ==
    /\ pc = "return"
    /\ npassed = 2
    /\ hists = [m4l |-> 1, mz1 |-> 1, mz2 |-> 1, iso |-> 8]

====
